---------------------------- MODULE Spec2Model ----------------------------
(***************************************************************************)
(* A model of the pathfind package: a Pathfinder over a set of nested      *)
(* polygons, its visibility graph and its Path query.                      *)
(*                                                                         *)
(* Coordinates are fixed-point numbers: one whole coordinate unit is Scale *)
(* model units, so that the margin of 0.002 is 2 model units.  float32 and *)
(* float64 both resolve finer than one model unit over the coordinates     *)
(* used here, so the only conversion that loses anything is v2p, which     *)
(* rounds to whole coordinate units.                                       *)
(***************************************************************************)
EXTENDS Integers, Sequences, FiniteSets, TLC

\* Model units per whole coordinate unit (the resolution of Point and Vec2).
Scale == 1000

\* const margin = 0.002, in model units (cached-graph version of the package).
margin == 2

\* const margin = 0.001, in model units (rebuild version, pathfinder.go).
margin0 == 1

\* The destinations queried are the whole-unit grid points 0..MaxX by
\* 0..MaxY, the starts those of them with Y up to MaxStartY.
MaxX == 3
MaxY == 4
MaxStartY == 2

\* append allocates "sufficiently large" arrays: the backing array of
\* concaveVertices has either no unused element behind its length or
\* MaxSpare of them.
MaxSpare == 2

\* The rebuild version is queried on the grid points 0..MaxProbe squared.
MaxProbe == 2

\* Concurrent calls: NumCalls of them, on the grid points 1..MaxRace squared.
NumCalls == 2
MaxRace == 2

\* Polygon sets of nested polygons: the inner polygon is shifted by 0..MaxShift
\* whole units in X and in Y inside the outer square.
MaxShift == 2

\* The quadTree: capacities 1..MaxCapacity, up to MaxInserts insert calls, and
\* a stack that holds insert calls nested up to MaxDepth below the root's.
MaxCapacity == 2
MaxInserts == 3
MaxDepth == 2

\* func Pt(x, y float64) Point
Pt(x, y) == [X |-> x * Scale, Y |-> y * Scale]

\* func (p Point) Add(q Point) Point
Add(p, q) == [X |-> p.X + q.X, Y |-> p.Y + q.Y]

\* func (p Point) Sub(q Point) Point
Sub(p, q) == [X |-> p.X - q.X, Y |-> p.Y - q.Y]

Abs(n) == IF n < 0 THEN -n ELSE n

Sgn(n) == IF n < 0 THEN -1 ELSE IF n > 0 THEN 1 ELSE 0

\* math.Round on one coordinate: to the nearest whole unit, halves away from zero.
Round(c) == Sgn(c) * ((Abs(c) + Scale \div 2) \div Scale) * Scale

\* p2v: Point (float64) to geom.Vec2 (float32); exact at the model's resolution.
p2v(p) == [X |-> p.X, Y |-> p.Y]

\* v2p: geom.Vec2 to Point, X and Y rounded.
v2p(v) == [X |-> Round(v.X), Y |-> Round(v.Y)]

\* Integer square root (floor), for vector lengths in model units.
RECURSIVE SqrtIter(_, _, _)
SqrtIter(n, lo, hi) ==
    IF lo >= hi THEN lo
    ELSE LET mid == (lo + hi + 1) \div 2
         IN  IF mid * mid <= n THEN SqrtIter(n, mid, hi) ELSE SqrtIter(n, lo, mid - 1)

ISqrt(n) == SqrtIter(n, 0, 46340)

Cross(a, b) == a.X * b.Y - a.Y * b.X

Dot(a, b) == a.X * b.X + a.Y * b.Y

(***************************************************************************)
(* The polygon sets a Pathfinder is constructed with.                      *)
(***************************************************************************)

\* An L-shaped area with one concave vertex, (2,1).
polygonL == << << Pt(0, 0), Pt(2, 0), Pt(2, 1), Pt(3, 1), Pt(3, 3), Pt(0, 3) >> >>

\* A square with a diamond shaped hole inside (polygonO of the tests, scaled).
polygonO == << << Pt(0, 0), Pt(4, 0), Pt(4, 4), Pt(0, 4) >>,
               << Pt(2, 1), Pt(3, 2), Pt(2, 3), Pt(1, 2) >> >>

PolygonSets == {polygonL, polygonO}

GridPoints == {Pt(x, y) : x \in 0..MaxX, y \in 0..MaxY}

StartPoints == {Pt(x, y) : x \in 0..MaxX, y \in 0..MaxStartY}

ProbePoints == {Pt(x, y) : x \in 0..MaxProbe, y \in 0..MaxProbe}

RacePoints == {Pt(x, y) : x \in 1..MaxRace, y \in 1..MaxRace}

(***************************************************************************)
(* internal/poly: polygons and polygon sets.                               *)
(***************************************************************************)

\* func (p Polygon) WrapIndex(i int) int, on 1-based indices.
WrapIndex(p, i) == ((i - 1 + Len(p)) % Len(p)) + 1

\* pt lies on the closed edge a-b.
OnSegment(a, b, pt) ==
    /\ (b.X - a.X) * (pt.Y - a.Y) = (b.Y - a.Y) * (pt.X - a.X)
    /\ (pt.X - a.X) * (pt.X - b.X) + (pt.Y - a.Y) * (pt.Y - b.Y) <= 0

OnBoundary(p, pt) ==
    \E i \in 1..Len(p) : OnSegment(p[i], p[WrapIndex(p, i + 1)], pt)

\* The edge from p[i] to its successor toggles the even-odd count of pt.
EdgeToggles(p, i, pt) ==
    LET old == p[i]
        new == p[WrapIndex(p, i + 1)]
        left == IF new.X > old.X THEN old ELSE new
        right == IF new.X > old.X THEN new ELSE old
    IN  /\ left.X < pt.X
        /\ pt.X <= right.X
        /\ (pt.Y - left.Y) * (right.X - left.X) < (right.Y - left.Y) * (pt.X - left.X)

\* func (p Polygon) Contains(pt geom.Vec2, toleranceOnOutside bool) bool
PolygonContains(p, pt, toleranceOnOutside) ==
    IF OnBoundary(p, pt) THEN toleranceOnOutside
    ELSE Cardinality({i \in 1..Len(p) : EdgeToggles(p, i, pt)}) % 2 = 1

\* func (p Polygon) Orientation(): the sign of twice the signed area.
Orientation(p) ==
    LET RECURSIVE Sum(_)
        Sum(i) == IF i = 0 THEN 0
                  ELSE Cross(p[i], p[WrapIndex(p, i + 1)]) + Sum(i - 1)
    IN  Sgn(Sum(Len(p)))

\* func (p Polygon) IsConcaveAt(i int) bool
IsConcaveAt(p, i) ==
    LET left == Sub(p[i], p[WrapIndex(p, i - 1)])
        right == Sub(p[WrapIndex(p, i + 1)], p[i])
    IN  Cross(left, right) * Orientation(p) < 0

\* func (l LineSeg) Crosses: the two open segments meet in one point.
Crosses(a, b, c, d) ==
    LET den == (b.X - a.X) * (d.Y - c.Y) - (b.Y - a.Y) * (d.X - c.X)
        n1 == (d.X - c.X) * (a.Y - c.Y) - (d.Y - c.Y) * (a.X - c.X)
        n2 == (b.X - a.X) * (a.Y - c.Y) - (b.Y - a.Y) * (a.X - c.X)
    IN  IF den > 0 THEN 0 < n1 /\ n1 < den /\ 0 < n2 /\ n2 < den
        ELSE IF den < 0 THEN 0 > n1 /\ n1 > den /\ 0 > n2 /\ n2 > den
        ELSE FALSE

\* func (p Polygon) IsCrossedBy(ls LineSeg) bool
IsCrossedBy(p, a, b) ==
    \E i \in 1..Len(p) : Crosses(a, b, p[i], p[WrapIndex(p, i + 1)])

\* func (l LineSeg) Middle() geom.Vec2
Middle(a, b) == [X |-> (a.X + b.X) \div 2, Y |-> (a.Y + b.Y) \div 2]

\* func (ps PolygonSet) Contains(pt geom.Vec2) bool: pt is in the walkable
\* region.  Polygons nest alternately as area and hole; the boundary of an
\* area and the boundary of a hole both belong to the walkable region.
RECURSIVE ContainsFrom(_, _, _, _)
ContainsFrom(ps, pt, i, inside) ==
    IF i > Len(ps) THEN inside
    ELSE ContainsFrom(ps, pt, i + 1,
                      IF PolygonContains(ps[i], pt, ~inside) THEN ~inside ELSE inside)

Contains(ps, pt) == ContainsFrom(ps, pt, 1, FALSE)

\* The edges of a polygon set in polygon order and vertex order.
RECURSIVE EdgesFrom(_, _)
EdgesFrom(ps, i) ==
    IF i > Len(ps) THEN << >>
    ELSE [k \in 1..Len(ps[i]) |-> << ps[i][k], ps[i][WrapIndex(ps[i], k + 1)] >>]
         \o EdgesFrom(ps, i + 1)

Edges(ps) == EdgesFrom(ps, 1)

\* Division rounded to the nearest integer, for d > 0.
RoundDiv(n, d) == (2 * n + d) \div (2 * d)

\* func (l LineSeg) ClosestPt(pt geom.Vec2) geom.Vec2: the projection of pt on
\* the line through the edge, kept between the edge's end points.  The edge
\* vector is taken in whole units (polygon vertices are whole-unit points).
SegClosestPt(a, b, pt) ==
    LET e == [X |-> (b.X - a.X) \div Scale, Y |-> (b.Y - a.Y) \div Scale]
        len2 == Dot(e, e)
        d == Dot(Sub(pt, a), e)
    IN  IF len2 = 0 \/ d <= 0 THEN a
        ELSE IF d >= len2 * Scale THEN b
        ELSE [X |-> a.X + RoundDiv(e.X * d, len2), Y |-> a.Y + RoundDiv(e.Y * d, len2)]

SqDist(a, b) == Dot(Sub(a, b), Sub(a, b))

\* func (ps PolygonSet) ClosestPt(pt geom.Vec2) geom.Vec2: the point nearest
\* to pt on any edge; of equally near points the first in edge order.
RECURSIVE ClosestFrom(_, _, _, _)
ClosestFrom(es, pt, i, best) ==
    IF i > Len(es) THEN best
    ELSE LET c == SegClosestPt(es[i][1], es[i][2], pt)
         IN  ClosestFrom(es, pt, i + 1,
                         IF SqDist(c, pt) < SqDist(best, pt) THEN c ELSE best)

ClosestPt(ps, pt) ==
    LET es == Edges(ps)
    IN  ClosestFrom(es, pt, 2, SegClosestPt(es[1][1], es[1][2], pt))

(***************************************************************************)
(* geom.Vec2 and the graph type.  A unit vector is held with Scale as 1.   *)
(***************************************************************************)

\* Division rounded to the nearest integer for either sign of n, d > 0.
DivR(n, d) == Sgn(n) * ((2 * Abs(n) + d) \div (2 * d))

\* func (v Vec2) Len() float32
VecLen(v) == ISqrt(Dot(v, v))

\* func (v Vec2) Norm() Vec2: the unit vector of v (v itself if v is zero).
Norm(v) ==
    IF VecLen(v) = 0 THEN v
    ELSE [X |-> DivR(v.X * Scale, VecLen(v)), Y |-> DivR(v.Y * Scale, VecLen(v))]

\* func (v Vec2) Mul(s float32) Vec2, of a unit vector by a length in model units.
Mul(v, s) == [X |-> DivR(v.X * s, Scale), Y |-> DivR(v.Y * s, Scale)]

\* func (v Vec2) NearEq(w Vec2) bool: equal within a tolerance below one model unit.
NearEq(v, w) == v = w

\* A graph[Point] is a map from a node to its adjacency list; the nil slice
\* and the empty slice are both << >>.
EmptyGraph == [n \in {} |-> << >>]

\* func (g graph[Node]) link(a, b Node): g[a] = append(g[a], b)
link(g, a, b) ==
    IF a \in DOMAIN g THEN [g EXCEPT ![a] = Append(@, b)]
    ELSE g @@ (a :> << b >>)

\* func (g graph[Node]) Neighbours(n Node) []Node
Neighbours(g, n) == IF n \in DOMAIN g THEN g[n] ELSE << >>

(***************************************************************************)
(* The cached-graph version of the package.                                *)
(***************************************************************************)

\* isHole counting only the polygons that come before polygon i.
isHoleEarlier(ps, i) ==
    Cardinality({j \in 1..Len(ps) : j < i /\ PolygonContains(ps[j], ps[i][1], FALSE)}) % 2 = 1

\* func isHole(ps poly.PolygonSet, i int) bool
isHole(ps, i) ==
    Cardinality({j \in 1..Len(ps) : i # j /\ PolygonContains(ps[j], ps[i][1], FALSE)}) % 2 = 1

\* func containmentLevel(ps poly.PolygonSet, pt Point) int
containmentLevel(ps, pt) ==
    Cardinality({i \in 1..Len(ps) : PolygonContains(ps[i], p2v(pt), TRUE)})

\* vertexType: concave or convex.
concave == "concave"
convex == "convex"

\* func verticesOfType(p poly.Polygon, t vertexType) []Point
RECURSIVE verticesOfTypeFrom(_, _, _)
verticesOfTypeFrom(p, t, i) ==
    IF i > Len(p) THEN << >>
    ELSE (IF (t = concave /\ IsConcaveAt(p, i)) \/ (t = convex /\ ~IsConcaveAt(p, i))
          THEN << v2p(p[i]) >> ELSE << >>)
         \o verticesOfTypeFrom(p, t, i + 1)

verticesOfType(p, t) == verticesOfTypeFrom(p, t, 1)

\* func concaveVertices(ps poly.PolygonSet) []Point
RECURSIVE concaveVerticesFrom(_, _)
concaveVerticesFrom(ps, i) ==
    IF i > Len(ps) THEN << >>
    ELSE verticesOfType(ps[i], IF isHole(ps, i) THEN convex ELSE concave)
         \o concaveVerticesFrom(ps, i + 1)

concaveVertices(ps) == concaveVerticesFrom(ps, 1)

\* func inLineOfSight(ps poly.PolygonSet, start, end geom.Vec2) bool
inLineOfSight(ps, start, end) ==
    /\ \A i \in 1..Len(ps) : ~IsCrossedBy(ps[i], start, end)
    /\ Contains(ps, Middle(start, end))

\* visibilityGraph with every pair of points tested once only (j after i) and
\* linked in one direction.
RECURSIVE visibilityGraphForwardFrom(_, _, _, _)
visibilityGraphForwardFrom(ps, points, k, g) ==
    IF k >= Len(points) * Len(points) THEN g
    ELSE LET i == (k \div Len(points)) + 1
             j == (k % Len(points)) + 1
         IN  visibilityGraphForwardFrom(ps, points, k + 1,
                 IF i < j /\ inLineOfSight(ps, p2v(points[i]), p2v(points[j]))
                 THEN link(g, points[i], points[j]) ELSE g)

visibilityGraphForward(ps, points) == visibilityGraphForwardFrom(ps, points, 0, EmptyGraph)

\* func visibilityGraph(ps poly.PolygonSet, points []Point) graph[Point]
\* k counts the iterations of the two nested loops over points.
RECURSIVE visibilityGraphFrom(_, _, _, _)
visibilityGraphFrom(ps, points, k, vis) ==
    IF k >= Len(points) * Len(points) THEN vis
    ELSE LET i == (k \div Len(points)) + 1
             j == (k % Len(points)) + 1
         IN  visibilityGraphFrom(ps, points, k + 1,
                 IF i # j /\ inLineOfSight(ps, p2v(points[i]), p2v(points[j]))
                 THEN link(vis, points[i], points[j]) ELSE vis)

visibilityGraph(ps, points) == visibilityGraphFrom(ps, points, 0, EmptyGraph)

\* func nodeDist(a, b Point) float64
nodeDist(a, b) == ISqrt(Dot(Sub(a, b), Sub(a, b)))

\* The offsets ensureInside tries: dx and dy from -1 to 1, dx the outer loop,
\* without (0, 0).
Nudges == << << -1, -1 >>, << -1, 0 >>, << -1, 1 >>, << 0, -1 >>,
             << 0, 1 >>, << 1, -1 >>, << 1, 0 >>, << 1, 1 >> >>

RECURSIVE ensureInsideFrom(_, _, _, _)
ensureInsideFrom(ps, pt, m, k) ==
    IF k > Len(Nudges) THEN pt
    ELSE LET npt == Add(pt, [X |-> Nudges[k][1] * m, Y |-> Nudges[k][2] * m])
         IN  IF Contains(ps, p2v(npt)) THEN npt
             ELSE ensureInsideFrom(ps, pt, m, k + 1)

\* func ensureInside(ps poly.PolygonSet, pt Point) Point
ensureInside(ps, pt) ==
    IF Contains(ps, p2v(pt)) THEN pt ELSE ensureInsideFrom(ps, pt, margin, 1)

\* The vertices of a polygon set as << polygon index, vertex index >>, in the
\* order of the two nested loops of offsetFromBoundary.
RECURSIVE VertexIndicesFrom(_, _)
VertexIndicesFrom(ps, pi) ==
    IF pi > Len(ps) THEN << >>
    ELSE [i \in 1..Len(ps[pi]) |-> << pi, i >>] \o VertexIndicesFrom(ps, pi + 1)

VertexIndices(ps) == VertexIndicesFrom(ps, 1)

\* The point offsetFromBoundary tests for vertex i of polygon pi.
Moved(ps, pi, i) ==
    LET p == ps[pi]
        pv == p[i]
        prev == p[WrapIndex(p, i - 1)]
        next == p[WrapIndex(p, i + 1)]
        e1 == Norm(Sub(pv, prev))
        e2 == Norm(Sub(next, pv))
        ccw == Orientation(p) > 0
        n1 == IF ccw THEN [X |-> e1.Y, Y |-> -e1.X] ELSE [X |-> -e1.Y, Y |-> e1.X]
        n2 == IF ccw THEN [X |-> e2.Y, Y |-> -e2.X] ELSE [X |-> -e2.Y, Y |-> e2.X]
        sum == Add(n1, n2)
        bis == Mul(Norm(IF VecLen(sum) = 0 THEN n1 ELSE sum), margin)
    IN  IF isHole(ps, pi) THEN Add(pv, bis) ELSE Sub(pv, bis)

RECURSIVE offsetFromBoundaryFrom(_, _, _, _)
offsetFromBoundaryFrom(ps, pt, vs, k) ==
    IF k > Len(vs) THEN pt
    ELSE IF /\ NearEq(ps[vs[k][1]][vs[k][2]], p2v(pt))
            /\ Contains(ps, Moved(ps, vs[k][1], vs[k][2]))
         THEN v2p(Moved(ps, vs[k][1], vs[k][2]))
         ELSE offsetFromBoundaryFrom(ps, pt, vs, k + 1)

\* func offsetFromBoundary(ps poly.PolygonSet, pt Point) Point
offsetFromBoundary(ps, pt) == offsetFromBoundaryFrom(ps, pt, VertexIndices(ps), 1)


(***************************************************************************)
(* A slice is a backing array arr, shared by every slice cut from it, and  *)
(* a length len; its capacity is Len(arr).                                 *)
(***************************************************************************)

\* The elements of a slice.
Elems(s) == SubSeq(s.arr, 1, s.len)

\* A slice of elems with spare unused (zero valued) elements behind them.
NewSlice(elems, spare) ==
    [arr |-> elems \o [k \in 1..spare |-> Pt(0, 0)], len |-> Len(elems)]

\* s = append(s, xs...): the slice grown by xs is kept in place of s.
AppendKept(s, xs) ==
    [arr |-> IF s.len + Len(xs) <= Len(s.arr)
             THEN [k \in 1..Len(s.arr) |->
                     IF k > s.len /\ k <= s.len + Len(xs) THEN xs[k - s.len] ELSE s.arr[k]]
             ELSE SubSeq(s.arr, 1, s.len) \o xs,
     len |-> s.len + Len(xs)]

\* The backing array of s after append(s, x...): written in place when the
\* capacity suffices, untouched (the result is a new array) when it does not.
AppendInPlace(s, xs) ==
    IF s.len + Len(xs) <= Len(s.arr)
    THEN [s EXCEPT !.arr = [k \in 1..Len(s.arr) |->
                               IF k > s.len /\ k <= s.len + Len(xs)
                               THEN xs[k - s.len] ELSE s.arr[k]]]
    ELSE s

(***************************************************************************)
(* Maps are references.  The heap maps a reference to the graph it points  *)
(* to: CachedRef is the map NewPathfinder builds, QueryRef(c) the map the  *)
(* Path call c makes for itself, NilRef the nil map.                       *)
(***************************************************************************)
NilRef == << "nil", 0 >>
CachedRef == << "cached", 0 >>
QueryRef(c) == << "query", c >>

\* The elements of append(s, xs...), read from the array that holds them.
Appended(s, xs) ==
    IF s.len + Len(xs) <= Len(s.arr)
    THEN SubSeq(AppendInPlace(s, xs).arr, 1, s.len + Len(xs))
    ELSE Elems(s) \o xs

\* copyGraph returning the map it was given instead of a copy.
copyGraphShared(heap, src, new) == [heap |-> heap, ref |-> src]

\* func copyGraph(src graph[Point]) graph[Point]: a new map, at reference
\* new, with a copy of every non-empty adjacency list of the map at src.
copyGraph(heap, src, new) ==
    [heap |-> [heap EXCEPT ![new] =
                  [n \in {m \in DOMAIN heap[src] : Len(heap[src][m]) > 0} |-> heap[src][n]]],
     ref |-> new]

\* One loop of prepareVisibilityGraph: x is linked with every b of points
\* that differs from x, in each direction that is in line of sight.
RECURSIVE linkLoop(_, _, _, _, _)
linkLoop(ps, vis, x, points, k) ==
    IF k > Len(points) THEN vis
    ELSE LET b == points[k]
             v1 == IF b # x /\ inLineOfSight(ps, p2v(x), p2v(b))
                   THEN link(vis, x, b) ELSE vis
             v2 == IF b # x /\ inLineOfSight(ps, p2v(b), p2v(x))
                   THEN link(v1, b, x) ELSE v1
         IN  linkLoop(ps, v2, x, points, k + 1)

\* vis[n] = vis[n]: n becomes a key of the map, with a nil list if it was none.
touch(vis, n) == IF n \in DOMAIN vis THEN vis ELSE vis @@ (n :> << >>)

\* The last step of prepareVisibilityGraph: start and dest linked both ways.
linkStartDest(ps, vis, start, dest) ==
    IF inLineOfSight(ps, p2v(start), p2v(dest))
    THEN link(link(vis, start, dest), dest, start)
    ELSE vis

\* The first half of prepareVisibilityGraph: the copy of the cached graph with
\* start and dest as keys and start linked with the reflex vertices and dest.
linkStart(p, heap, new, start, dest) ==
    LET c == copyGraph(heap, p.cachedGraph, new)
        vis0 == touch(touch(c.heap[c.ref], start), dest)
        points == Elems(p.concaveVertices) \o << dest >>
    IN  [heap |-> [c.heap EXCEPT ![c.ref] = linkLoop(p.polygonSet, vis0, start, points, 1)],
         ref |-> c.ref]

\* The second half of prepareVisibilityGraph: dest linked with points, which
\* is append(p.concaveVertices, start), and start and dest with each other.
linkDest(ps, vis, points, start, dest) ==
    linkStartDest(ps, linkLoop(ps, vis, dest, points, 1), start, dest)

\* func (p *Pathfinder) prepareVisibilityGraph(start, dest Point) graph[Point]
\* Returns the heap and the backing array of p.concaveVertices as the call
\* leaves them, and the reference of the graph it returns.
prepareVisibilityGraph(p, heap, new, start, dest) ==
    LET c == linkStart(p, heap, new, start, dest)
        points == Appended(p.concaveVertices, << start >>)
        vis == linkDest(p.polygonSet, c.heap[c.ref], points, start, dest)
    IN  [heap |-> [c.heap EXCEPT ![c.ref] = vis],
         concaveVertices |-> AppendInPlace(p.concaveVertices, << start >>),
         ref |-> c.ref]

(***************************************************************************)
(* astar.FindPath: A* over the graph with nodeDist as cost and heuristic.  *)
(* The queue holds paths with their cost; the path of least cost plus      *)
(* heuristic is taken first, of equal ones the one queued first.           *)
(***************************************************************************)
RECURSIVE MinIndex(_, _, _)
MinIndex(pq, k, best) ==
    IF k > Len(pq) THEN best
    ELSE MinIndex(pq, k + 1, IF pq[k].f < pq[best].f THEN k ELSE best)

RECURSIVE AStar(_, _, _, _)
AStar(g, dest, pq, closed) ==
    IF pq = << >> THEN << >>
    ELSE LET k == MinIndex(pq, 2, 1)
             item == pq[k]
             n == item.path[Len(item.path)]
             rest == SubSeq(pq, 1, k - 1) \o SubSeq(pq, k + 1, Len(pq))
             nbs == Neighbours(g, n)
         IN  IF n \in closed THEN AStar(g, dest, rest, closed)
             ELSE IF n = dest THEN item.path
             ELSE AStar(g, dest,
                        rest \o [i \in 1..Len(nbs) |->
                                   [path |-> Append(item.path, nbs[i]),
                                    cost |-> item.cost + nodeDist(n, nbs[i]),
                                    f |-> item.cost + nodeDist(n, nbs[i])
                                          + nodeDist(nbs[i], dest)]],
                        closed \cup {n})

\* The nil path is << >>: a path that was found has at least one point.
FindPath(g, start, dest) ==
    AStar(g, dest, << [path |-> << start >>, cost |-> 0, f |-> 0] >>, {})

\* The destination Path searches for: dest itself, or clamped to the nearest
\* polygon edge when it is not contained in the polygon set.
resolveDest(ps, dest) ==
    IF ~Contains(ps, p2v(dest))
    THEN ensureInside(ps, v2p(ClosestPt(ps, p2v(dest))))
    ELSE dest

\* The loop at the end of Path: every point but the first and the last is
\* replaced by its offset from the boundary.
offsetPath(ps, path) ==
    [i \in 1..Len(path) |->
        IF 1 < i /\ i < Len(path) THEN offsetFromBoundary(ps, path[i]) ELSE path[i]]

\* Path without the comparison of the containment levels.
PathUnchecked(p, heap, new, start, dest) ==
    LET d == resolveDest(p.polygonSet, dest)
        g == prepareVisibilityGraph(p, heap, new, start, d)
        path == FindPath(g.heap[g.ref], start, d)
    IN  [path |-> offsetPath(p.polygonSet, path), heap |-> g.heap,
         concaveVertices |-> g.concaveVertices, ref |-> g.ref, dest |-> d]

\* func (p *Pathfinder) Path(start, dest Point) []Point
\* Returns the path with the heap and p.concaveVertices as the call leaves
\* them, the reference of the graph searched and the destination searched for.
Path(p, heap, new, start, dest) ==
    IF containmentLevel(p.polygonSet, start) # containmentLevel(p.polygonSet, dest)
    THEN [path |-> << >>, heap |-> heap, concaveVertices |-> p.concaveVertices,
          ref |-> NilRef, dest |-> dest]
    ELSE LET d == resolveDest(p.polygonSet, dest)
             g == prepareVisibilityGraph(p, heap, new, start, d)
             path == FindPath(g.heap[g.ref], start, d)
         IN  [path |-> offsetPath(p.polygonSet, path), heap |-> g.heap,
              concaveVertices |-> g.concaveVertices, ref |-> g.ref, dest |-> d]

\* func NewPathfinder(polygons [][]Point) *Pathfinder, with the heap holding
\* its cached graph; spare is the unused capacity behind concaveVertices.
NewPathfinder(polys, spare) ==
    LET polySet == [i \in 1..Len(polys) |-> [k \in 1..Len(polys[i]) |-> p2v(polys[i][k])]]
        conc == concaveVertices(polySet)
    IN  [p |-> [polygons |-> polys, polygonSet |-> polySet,
                concaveVertices |-> NewSlice(conc, spare), cachedGraph |-> CachedRef],
         heap |-> (CachedRef :> visibilityGraph(polySet, conc)) @@ (NilRef :> EmptyGraph)
                  @@ [r \in {QueryRef(c) : c \in 1..NumCalls} |-> EmptyGraph]]

(***************************************************************************)
(* The rebuild version of the package (pathfinder.go): no cached graph;    *)
(* Path builds the whole visibility graph and keeps it in                  *)
(* p.visibilityGraph, which VisibilityGraph() returns.                     *)
(***************************************************************************)

\* func ensureInside(ps poly.PolygonSet, pt Point) Point, with margin 0.001
ensureInside0(ps, pt) ==
    IF Contains(ps, p2v(pt)) THEN pt ELSE ensureInsideFrom(ps, pt, margin0, 1)

\* The destination Path searches for in the rebuild version.
resolveDest0(ps, dest) ==
    IF ~Contains(ps, p2v(dest))
    THEN ensureInside0(ps, v2p(ClosestPt(ps, p2v(dest))))
    ELSE dest

\* The point offsetFromBoundary of the rebuild version tests for vertex i of
\* polygon pi: the vertex moved by margin along the sum of its edge directions.
Moved0(ps, pi, i) ==
    LET p == ps[pi]
        pv == p[i]
        prev == p[WrapIndex(p, i - 1)]
        next == p[WrapIndex(p, i + 1)]
        e1 == Norm(Sub(pv, prev))
        e2 == Norm(Sub(next, pv))
        sum == Add(e1, e2)
        bis == Mul(Norm(IF VecLen(sum) = 0 THEN [X |-> -e1.Y, Y |-> e1.X] ELSE sum), margin0)
    IN  Add(pv, bis)

RECURSIVE offsetFromBoundary0From(_, _, _, _)
offsetFromBoundary0From(ps, pt, vs, k) ==
    IF k > Len(vs) THEN pt
    ELSE IF /\ NearEq(ps[vs[k][1]][vs[k][2]], p2v(pt))
            /\ Contains(ps, Moved0(ps, vs[k][1], vs[k][2]))
         THEN v2p(Moved0(ps, vs[k][1], vs[k][2]))
         ELSE offsetFromBoundary0From(ps, pt, vs, k + 1)

\* func offsetFromBoundary(ps poly.PolygonSet, pt Point) Point, rebuild version
offsetFromBoundary0(ps, pt) == offsetFromBoundary0From(ps, pt, VertexIndices(ps), 1)

\* func (p *Pathfinder) Path(start, dest Point) []Point, rebuild version.
\* Returns the path with the heap, p.concaveVertices and p.visibilityGraph as
\* the call leaves them, and the destination searched for.
Path0(p, heap, new, start, dest) ==
    IF containmentLevel(p.polygonSet, start) # containmentLevel(p.polygonSet, dest)
    THEN [path |-> << >>, heap |-> heap, concaveVertices |-> p.concaveVertices,
          visibilityGraph |-> p.visibilityGraph, dest |-> dest]
    ELSE LET d == resolveDest0(p.polygonSet, dest)
             graphVertices == Appended(p.concaveVertices, << start, d >>)
             g == visibilityGraph(p.polygonSet, graphVertices)
             path == FindPath(g, start, d)
         IN  [path |-> [i \in 1..Len(path) |->
                          IF 1 < i /\ i < Len(path)
                          THEN offsetFromBoundary0(p.polygonSet, path[i]) ELSE path[i]],
              heap |-> [heap EXCEPT ![new] = g],
              concaveVertices |-> AppendInPlace(p.concaveVertices, << start, d >>),
              visibilityGraph |-> new, dest |-> d]

\* func NewPathfinder(polygons [][]Point) *Pathfinder, rebuild version: the
\* visibilityGraph field is nil.
NewPathfinder0(polys, spare) ==
    LET polySet == [i \in 1..Len(polys) |-> [k \in 1..Len(polys[i]) |-> p2v(polys[i][k])]]
    IN  [p |-> [polygons |-> polys, polygonSet |-> polySet,
                concaveVertices |-> NewSlice(concaveVertices(polySet), spare),
                visibilityGraph |-> NilRef],
         heap |-> (NilRef :> EmptyGraph) @@ (QueryRef(1) :> EmptyGraph)]

(***************************************************************************)
(* The spatial index (index.go): rect and quadTree.  A *quadTree is the    *)
(* tree it points to; every node is reached through one pointer only.      *)
(***************************************************************************)

\* type rect struct { min, max Point }
Rect(a, b) == [min |-> a, max |-> b]

\* func (r rect) contains(p Point) bool
contains(r, p) ==
    p.X >= r.min.X /\ p.X <= r.max.X /\ p.Y >= r.min.Y /\ p.Y <= r.max.Y

\* func (r rect) intersects(o rect) bool
intersects(r, o) ==
    ~(o.min.X > r.max.X \/ o.max.X < r.min.X \/ o.min.Y > r.max.Y \/ o.max.Y < r.min.Y)

\* The nil *quadTree.
NoTree == [nil |-> TRUE]

\* func newQuadTree(b rect, capacity int) *quadTree
newQuadTree(b, capacity) ==
    [boundary |-> b, capacity |-> capacity, points |-> << >>, divided |-> FALSE,
     nw |-> NoTree, ne |-> NoTree, sw |-> NoTree, se |-> NoTree]

\* What an insert call returns: the tree as the call leaves it and the bool;
\* overflow tells that the nested calls exhausted the stack, which ends the
\* program, so that the call never returns.
Returned(qt, ok) == [qt |-> qt, ok |-> ok, overflow |-> FALSE]
StackOverflow(qt) == [qt |-> qt, ok |-> FALSE, overflow |-> TRUE]

RECURSIVE insert(_, _, _)

\* func (qt *quadTree) subdivide(), run by an insert call nested d deep: every
\* point of qt.points is inserted in each of the four new children.
subdivide(qt, d) ==
    LET b == qt.boundary
        midX == (b.min.X + b.max.X) \div 2
        midY == (b.min.Y + b.max.Y) \div 2
        mid == [X |-> midX, Y |-> midY]
        RECURSIVE Move(_, _)
        Move(k, t) ==
            IF k > Len(qt.points) \/ t.overflow THEN t
            ELSE LET a == insert(t.qt.nw, qt.points[k], d + 1)
                     b2 == insert(t.qt.ne, qt.points[k], d + 1)
                     c == insert(t.qt.sw, qt.points[k], d + 1)
                     e == insert(t.qt.se, qt.points[k], d + 1)
                 IN  Move(k + 1,
                          [qt |-> [t.qt EXCEPT !.nw = a.qt, !.ne = b2.qt, !.sw = c.qt, !.se = e.qt],
                           overflow |-> a.overflow \/ b2.overflow \/ c.overflow \/ e.overflow])
        moved == Move(1, [qt |-> [qt EXCEPT
                                    !.nw = newQuadTree(Rect(b.min, mid), qt.capacity),
                                    !.ne = newQuadTree(Rect([X |-> midX, Y |-> b.min.Y],
                                                            [X |-> b.max.X, Y |-> midY]), qt.capacity),
                                    !.sw = newQuadTree(Rect([X |-> b.min.X, Y |-> midY],
                                                            [X |-> midX, Y |-> b.max.Y]), qt.capacity),
                                    !.se = newQuadTree(Rect(mid, b.max), qt.capacity),
                                    !.divided = TRUE],
                          overflow |-> FALSE])
    IN  [qt |-> [moved.qt EXCEPT !.points = << >>], overflow |-> moved.overflow]

\* func (qt *quadTree) insert(p Point) bool, as a call nested d deep below the
\* caller's insert(p) on the root.
insert(qt, p, d) ==
    IF d > MaxDepth THEN StackOverflow(qt)
    ELSE IF ~contains(qt.boundary, p) THEN Returned(qt, FALSE)
    ELSE IF Len(qt.points) < qt.capacity /\ ~qt.divided
         THEN Returned([qt EXCEPT !.points = Append(@, p)], TRUE)
    ELSE LET s == IF ~qt.divided THEN subdivide(qt, d) ELSE [qt |-> qt, overflow |-> FALSE]
             a == insert(s.qt.nw, p, d + 1)
             b2 == insert(s.qt.ne, p, d + 1)
             c == insert(s.qt.sw, p, d + 1)
             e == insert(s.qt.se, p, d + 1)
         IN  IF s.overflow \/ a.overflow THEN StackOverflow(qt)
             ELSE IF a.ok THEN Returned([s.qt EXCEPT !.nw = a.qt], TRUE)
             ELSE IF b2.overflow THEN StackOverflow(qt)
             ELSE IF b2.ok THEN Returned([s.qt EXCEPT !.ne = b2.qt], TRUE)
             ELSE IF c.overflow THEN StackOverflow(qt)
             ELSE IF c.ok THEN Returned([s.qt EXCEPT !.sw = c.qt], TRUE)
             ELSE IF e.overflow THEN StackOverflow(qt)
             ELSE IF e.ok THEN Returned([s.qt EXCEPT !.se = e.qt], TRUE)
             ELSE Returned(s.qt, FALSE)

\* func (qt *quadTree) query(r rect, found *[]Point): *found after the call.
RECURSIVE query(_, _, _)
query(qt, r, found) ==
    IF ~intersects(qt.boundary, r) THEN found
    ELSE IF qt.divided
         THEN query(qt.se, r, query(qt.sw, r, query(qt.ne, r, query(qt.nw, r, found))))
    ELSE found \o SelectSeq(qt.points, LAMBDA p : contains(r, p))

\* func (qt *quadTree) rangeSearch(r rect) []Point
rangeSearch(qt, r) == query(qt, r, << >>)

(***************************************************************************)
(* The state: one Pathfinder, the heap of graphs, and the Path call in     *)
(* progress or last returned.                                              *)
(***************************************************************************)
VARIABLES
    polygons,          \* p.polygons
    polygonSet,        \* p.polygonSet
    concaveVertices_,  \* p.concaveVertices, a slice
    cachedGraph,       \* p.cachedGraph, a reference into graphs
    graphs,            \* the heap of graph[Point] maps
    pc,                \* "idle", "called" or "returned"
    start,             \* the start argument of the call
    dest,              \* the dest argument of the call
    resolved,          \* the destination the call searched for
    path,              \* what the call returned
    vis,               \* the reference of the graph the call searched
    visibilityGraph_,  \* p.visibilityGraph (rebuild version), a reference
    calls,             \* the concurrent Path calls, by call number
    index,             \* the quadTree
    inserts,           \* the insert calls made on it: the point and the bool returned
    result,            \* what the last rangeSearch returned
    searched,          \* the rect of the last rangeSearch
    pcIndex            \* "idle", "searched" or "overflow"

vars == << polygons, polygonSet, concaveVertices_, cachedGraph, graphs,
           pc, start, dest, resolved, path, vis, visibilityGraph_, calls,
           index, inserts, result, searched, pcIndex >>

\* The variables of the Pathfinder and those of the quadTree.
pathVars == << polygons, polygonSet, concaveVertices_, cachedGraph, graphs,
               pc, start, dest, resolved, path, vis, visibilityGraph_, calls >>
indexVars == << index, inserts, result, searched, pcIndex >>

\* The boundary of the quadTree: two whole units wide and high.
rootBoundary == Rect(Pt(0, 0), Pt(2, 2))

\* No quadTree is in use: the Pathfinder does not build one.
NoIndex ==
    /\ index = NoTree
    /\ inserts = << >>
    /\ result = << >>
    /\ searched = rootBoundary
    /\ pcIndex = "idle"

\* A Path call that has not begun.
IdleCall == [pc |-> "idle", start |-> Pt(0, 0), dest |-> Pt(0, 0), resolved |-> Pt(0, 0),
             vis |-> NilRef, shared |-> FALSE, points |-> << >>, path |-> << >>]

\* No concurrent call has begun.
NoCalls == calls = [c \in 1..NumCalls |-> IdleCall]

\* The receiver p of the methods.
self == [polygons |-> polygons, polygonSet |-> polygonSet,
         concaveVertices |-> concaveVertices_, cachedGraph |-> cachedGraph]

NoCall == /\ start = Pt(0, 0)
          /\ dest = Pt(0, 0)
          /\ resolved = Pt(0, 0)
          /\ path = << >>
          /\ vis = NilRef

\* pathfinder := NewPathfinder(polygons)
Init ==
    \E polys \in PolygonSets, spare \in {0, MaxSpare} :
        LET n == NewPathfinder(polys, spare)
        IN  /\ polygons = n.p.polygons
            /\ polygonSet = n.p.polygonSet
            /\ concaveVertices_ = n.p.concaveVertices
            /\ cachedGraph = n.p.cachedGraph
            /\ graphs = n.heap
            /\ visibilityGraph_ = NilRef
            /\ pc = "idle"
            /\ NoCall
            /\ NoCalls
            /\ NoIndex

\* A caller invokes pathfinder.Path(s, d).
Call(s, d) ==
    /\ pc = "idle"
    /\ pc' = "called"
    /\ start' = s
    /\ dest' = d
    /\ UNCHANGED << polygons, polygonSet, concaveVertices_, cachedGraph, graphs,
                    resolved, path, vis, visibilityGraph_, calls >>
    /\ UNCHANGED indexVars

\* The body of Path runs and returns.
Return ==
    /\ pc = "called"
    /\ \E r \in {Path(self, graphs, QueryRef(1), start, dest)} :
           /\ path' = r.path
           /\ graphs' = r.heap
           /\ concaveVertices_' = r.concaveVertices
           /\ vis' = r.ref
           /\ resolved' = r.dest
    /\ pc' = "returned"
    /\ UNCHANGED << polygons, polygonSet, cachedGraph, start, dest,
                    visibilityGraph_, calls >>
    /\ UNCHANGED indexVars

\* The caller drops the returned path; the graph of the call is garbage.
Forget ==
    /\ pc = "returned"
    /\ pc' = "idle"
    /\ start' = Pt(0, 0)
    /\ dest' = Pt(0, 0)
    /\ resolved' = Pt(0, 0)
    /\ path' = << >>
    /\ vis' = NilRef
    /\ graphs' = [graphs EXCEPT ![QueryRef(1)] = EmptyGraph]
    /\ UNCHANGED << polygons, polygonSet, concaveVertices_, cachedGraph,
                    visibilityGraph_, calls >>
    /\ UNCHANGED indexVars

Next ==
    \/ \E s \in StartPoints, d \in GridPoints : Call(s, d)
    \/ Return
    \/ Forget

Spec == Init /\ [][Next]_vars

(***************************************************************************)
(* The rebuild version as a state machine.                                 *)
(***************************************************************************)

\* The receiver p of the methods of the rebuild version.
self0 == [polygons |-> polygons, polygonSet |-> polygonSet,
          concaveVertices |-> concaveVertices_, visibilityGraph |-> visibilityGraph_]

\* func (p *Pathfinder) VisibilityGraph() map[Point][]Point
VisibilityGraph == graphs[visibilityGraph_]

\* pathfinder := NewPathfinder(polygons), rebuild version
Init0 ==
    \E polys \in PolygonSets, spare \in {0, MaxSpare} :
        LET n == NewPathfinder0(polys, spare)
        IN  /\ polygons = n.p.polygons
            /\ polygonSet = n.p.polygonSet
            /\ concaveVertices_ = n.p.concaveVertices
            /\ visibilityGraph_ = n.p.visibilityGraph
            /\ cachedGraph = NilRef
            /\ graphs = n.heap
            /\ pc = "idle"
            /\ NoCall
            /\ NoCalls
            /\ NoIndex

\* A caller invokes pathfinder.Path(s, d).
Call0(s, d) ==
    /\ pc = "idle"
    /\ pc' = "called"
    /\ start' = s
    /\ dest' = d
    /\ UNCHANGED << polygons, polygonSet, concaveVertices_, cachedGraph, graphs,
                    resolved, path, vis, visibilityGraph_, calls >>
    /\ UNCHANGED indexVars

\* The body of Path runs and returns.
Return0 ==
    /\ pc = "called"
    /\ \E r \in {Path0(self0, graphs, QueryRef(1), start, dest)} :
           /\ path' = r.path
           /\ graphs' = r.heap
           /\ concaveVertices_' = r.concaveVertices
           /\ visibilityGraph_' = r.visibilityGraph
           /\ resolved' = r.dest
    /\ pc' = "returned"
    /\ UNCHANGED << polygons, polygonSet, cachedGraph, start, dest, vis, calls >>
    /\ UNCHANGED indexVars

\* The caller is done with the returned path; p.visibilityGraph stays.
Forget0 ==
    /\ pc = "returned"
    /\ pc' = "idle"
    /\ start' = Pt(0, 0)
    /\ dest' = Pt(0, 0)
    /\ resolved' = Pt(0, 0)
    /\ path' = << >>
    /\ UNCHANGED << polygons, polygonSet, concaveVertices_, cachedGraph, graphs,
                    vis, visibilityGraph_, calls >>
    /\ UNCHANGED indexVars

Next0 ==
    \/ \E s \in ProbePoints, d \in ProbePoints : Call0(s, d)
    \/ Return0
    \/ Forget0

SpecRebuild == Init0 /\ [][Next0]_vars

(***************************************************************************)
(* Concurrent Path calls on one cached-graph Pathfinder.  A call takes its *)
(* steps between its accesses to memory other calls can reach: the backing *)
(* array of p.concaveVertices, which append(p.concaveVertices, start)      *)
(* writes when it has spare capacity.  The write of a Point is two writes, *)
(* of X and of Y, and is not atomic.                                       *)
(***************************************************************************)

\* Call c begins: the level check, the clamping of dest and the first half of
\* prepareVisibilityGraph, which reads only what no call writes.
Begin(c, s, d) ==
    /\ calls[c].pc = "idle"
    /\ IF containmentLevel(polygonSet, s) # containmentLevel(polygonSet, d)
       THEN /\ calls' = [calls EXCEPT ![c] = [IdleCall EXCEPT !.pc = "returned",
                                                 !.start = s, !.dest = d, !.resolved = d]]
            /\ UNCHANGED graphs
       ELSE \E r \in {linkStart(self, graphs, QueryRef(c), s, resolveDest(polygonSet, d))} :
                /\ graphs' = r.heap
                /\ calls' = [calls EXCEPT ![c] =
                                [IdleCall EXCEPT !.pc = "linked", !.start = s, !.dest = d,
                                                 !.resolved = resolveDest(polygonSet, d),
                                                 !.vis = r.ref]]
    /\ UNCHANGED << polygons, polygonSet, concaveVertices_, cachedGraph,
                    pc, start, dest, resolved, path, vis, visibilityGraph_ >>
    /\ UNCHANGED indexVars

\* points = append(p.concaveVertices, start): with spare capacity the X of
\* start is written behind the length of the shared array; without, points
\* is a new array of the call's own.
AppendStart(c) ==
    /\ calls[c].pc = "linked"
    /\ IF concaveVertices_.len < Len(concaveVertices_.arr)
       THEN /\ concaveVertices_' =
                   [concaveVertices_ EXCEPT !.arr[concaveVertices_.len + 1].X = calls[c].start.X]
            /\ calls' = [calls EXCEPT ![c].pc = "appending", ![c].shared = TRUE]
       ELSE /\ calls' = [calls EXCEPT ![c].pc = "appended",
                                      ![c].points = Appended(concaveVertices_, << calls[c].start >>)]
            /\ UNCHANGED concaveVertices_
    /\ UNCHANGED << polygons, polygonSet, cachedGraph, graphs,
                    pc, start, dest, resolved, path, vis, visibilityGraph_ >>
    /\ UNCHANGED indexVars

\* The Y of start is written behind the length of the shared array.
AppendStartY(c) ==
    /\ calls[c].pc = "appending"
    /\ concaveVertices_' =
           [concaveVertices_ EXCEPT !.arr[concaveVertices_.len + 1].Y = calls[c].start.Y]
    /\ calls' = [calls EXCEPT ![c].pc = "appended"]
    /\ UNCHANGED << polygons, polygonSet, cachedGraph, graphs,
                    pc, start, dest, resolved, path, vis, visibilityGraph_ >>
    /\ UNCHANGED indexVars

\* The rest of the call: the second loop reads points (from the shared array,
\* as it is now, if points lies there), start and dest are linked, the path
\* is searched, offset and returned.
Finish(c) ==
    /\ calls[c].pc = "appended"
    /\ LET points == IF calls[c].shared
                     THEN SubSeq(concaveVertices_.arr, 1, concaveVertices_.len + 1)
                     ELSE calls[c].points
       IN  \E g \in {linkDest(polygonSet, graphs[calls[c].vis], points,
                              calls[c].start, calls[c].resolved)} :
               /\ graphs' = [graphs EXCEPT ![calls[c].vis] = g]
               /\ calls' = [calls EXCEPT
                              ![c].pc = "returned",
                              ![c].points = points,
                              ![c].path = offsetPath(polygonSet,
                                              FindPath(g, calls[c].start, calls[c].resolved))]
    /\ UNCHANGED << polygons, polygonSet, concaveVertices_, cachedGraph,
                    pc, start, dest, resolved, path, vis, visibilityGraph_ >>
    /\ UNCHANGED indexVars

NextConcurrent ==
    \E c \in 1..NumCalls :
        \/ \E s \in RacePoints, d \in RacePoints : Begin(c, s, d)
        \/ AppendStart(c)
        \/ AppendStartY(c)
        \/ Finish(c)

SpecConcurrent == Init /\ [][NextConcurrent]_vars

(***************************************************************************)
(* Construction over nested polygon sets: an outer square, an L-shaped     *)
(* polygon inside it (anywhere from one corner to the opposite one, so     *)
(* that it may touch the outer boundary, given in either orientation and   *)
(* beginning at any of its vertices), and optionally a third polygon: a    *)
(* triangle inside the L, or a square that shares an edge with the outer   *)
(* square from outside.                                                    *)
(***************************************************************************)

\* The side of the outer square: the L, 4 units wide, shifted by up to MaxShift.
Side == MaxShift + 4

outerSquare == << Pt(0, 0), Pt(Side, 0), Pt(Side, Side), Pt(0, Side) >>

innerL == << Pt(0, 0), Pt(4, 0), Pt(4, 2), Pt(2, 2), Pt(2, 4), Pt(0, 4) >>

islandT == << Pt(1, 1), Pt(2, 1), Pt(1, 2) >>

annexSquare == << Pt(Side, 0), Pt(Side + 1, 0), Pt(Side + 1, 1), Pt(Side, 1) >>

\* A polygon moved by (dx, dy) whole units.
Shifted(poly, dx, dy) == [k \in 1..Len(poly) |-> Add(poly[k], Pt(dx, dy))]

\* The same polygon beginning at its vertex r + 1.
Rotated(poly, r) == [k \in 1..Len(poly) |-> poly[((k - 1 + r) % Len(poly)) + 1]]

\* The same polygon in the other orientation.
Reversed(poly) == [k \in 1..Len(poly) |-> poly[Len(poly) + 1 - k]]

ThirdPolygons == {"none", "island", "annex"}

NestedSet(dx, dy, r, rev, outerFirst, third) ==
    LET inner == Shifted(Rotated(IF rev THEN Reversed(innerL) ELSE innerL, r), dx, dy)
    IN  (IF outerFirst THEN << outerSquare, inner >> ELSE << inner, outerSquare >>)
        \o (IF third = "island" THEN << Shifted(islandT, dx, dy) >>
            ELSE IF third = "annex" THEN << annexSquare >>
            ELSE << >>)

NestedSets ==
    {NestedSet(dx, dy, r, rev, outerFirst, third) :
        dx \in 0..MaxShift, dy \in 0..MaxShift, r \in 0..(Len(innerL) - 1),
        rev \in BOOLEAN, outerFirst \in BOOLEAN, third \in ThirdPolygons}

\* The caller holds the polygons; no Pathfinder is constructed yet.
InitExtract ==
    /\ polygons \in NestedSets
    /\ polygonSet = << >>
    /\ concaveVertices_ = NewSlice(<< >>, 0)
    /\ cachedGraph = NilRef
    /\ graphs = (NilRef :> EmptyGraph)
    /\ visibilityGraph_ = NilRef
    /\ pc = "new"
    /\ NoCall
    /\ NoCalls
    /\ NoIndex

\* pathfinder := NewPathfinder(polygons)
Construct(spare) ==
    /\ pc = "new"
    /\ \E n \in {NewPathfinder(polygons, spare)} :
           /\ polygonSet' = n.p.polygonSet
           /\ concaveVertices_' = n.p.concaveVertices
           /\ cachedGraph' = n.p.cachedGraph
           /\ graphs' = n.heap
    /\ pc' = "idle"
    /\ UNCHANGED << polygons, start, dest, resolved, path, vis, visibilityGraph_, calls >>
    /\ UNCHANGED indexVars

NextExtract == \E spare \in {0, MaxSpare} : Construct(spare)

SpecExtract == InitExtract /\ [][NextExtract]_vars

(***************************************************************************)
(* The quadTree as a state machine: a caller makes a tree of some capacity *)
(* and calls insert and rangeSearch on it.                                 *)
(***************************************************************************)

\* The points inserted: the whole-unit points of the boundary (its corners,
\* its centre and the middles of its sides lie on the lines it is divided
\* at) and two points outside of it.
IndexPoints == {Pt(x, y) : x \in 0..2, y \in 0..2} \cup {Pt(3, 1), Pt(1, 3)}

\* The rects searched.
QueryRects == {Rect(Pt(0, 0), Pt(2, 2)), Rect(Pt(0, 0), Pt(1, 1)), Rect(Pt(1, 1), Pt(2, 2)),
               Rect(Pt(1, 0), Pt(1, 2)), Rect(Pt(0, 0), Pt(3, 3)), Rect(Pt(2, 2), Pt(3, 3))}

\* qt := newQuadTree(rootBoundary, capacity)
InitIndex ==
    /\ \E capacity \in 1..MaxCapacity : index = newQuadTree(rootBoundary, capacity)
    /\ inserts = << >>
    /\ result = << >>
    /\ searched = rootBoundary
    /\ pcIndex = "idle"
    /\ polygons = << >>
    /\ polygonSet = << >>
    /\ concaveVertices_ = NewSlice(<< >>, 0)
    /\ cachedGraph = NilRef
    /\ graphs = (NilRef :> EmptyGraph)
    /\ visibilityGraph_ = NilRef
    /\ pc = "idle"
    /\ NoCall
    /\ NoCalls

\* qt.insert(p): the call returns a bool, or exhausts the stack.
Insert(p) ==
    /\ pcIndex # "overflow"
    /\ Len(inserts) < MaxInserts
    /\ \E r \in {insert(index, p, 0)} :
           /\ index' = r.qt
           /\ inserts' = Append(inserts, [p |-> p, ok |-> r.ok])
           /\ pcIndex' = IF r.overflow THEN "overflow" ELSE "idle"
    /\ result' = << >>
    /\ searched' = rootBoundary
    /\ UNCHANGED pathVars

\* qt.rangeSearch(r)
RangeSearch(r) ==
    /\ pcIndex = "idle"
    /\ result' = rangeSearch(index, r)
    /\ searched' = r
    /\ pcIndex' = "searched"
    /\ UNCHANGED << index, inserts >>
    /\ UNCHANGED pathVars

NextIndex ==
    \/ \E p \in IndexPoints : Insert(p)
    \/ \E r \in QueryRects : RangeSearch(r)

SpecIndex == InitIndex /\ [][NextIndex]_vars

(***************************************************************************)
(* The claims about Path on the cached-graph Pathfinder.                   *)
(***************************************************************************)

\* pt is contained in the walkable region of the Pathfinder's polygon set.
InWalkable(pt) == Contains(polygonSet, p2v(pt))

\* The number of polygons that contain pt, their boundaries included.
Level(pt) == containmentLevel(polygonSet, pt)

\* pt is in the walkable region and on no polygon's boundary.
StrictlyInside(pt) ==
    /\ InWalkable(pt)
    /\ \A i \in 1..Len(polygonSet) : ~OnBoundary(polygonSet[i], p2v(pt))

\* The vertices of all polygons of the polygon set.
Vertices ==
    UNION {{polygonSet[i][k] : k \in 1..Len(polygonSet[i])} : i \in 1..Len(polygonSet)}

\* The element behind the length of concaveVertices, if the array has one.
HasSpare == Len(concaveVertices_.arr) > concaveVertices_.len
SpareSlot == concaveVertices_.arr[concaveVertices_.len + 1]

\* The directed edges of a graph.
EdgesOf(g) == UNION {{<< a, g[a][k] >> : k \in 1..Len(g[a])} : a \in DOMAIN g}

\* The nodes of a graph: the ends of its edges.
NodesOf(g) == {e[1] : e \in EdgesOf(g)} \cup {e[2] : e \in EdgesOf(g)}

\* C1: a call with start in the walkable region and dest outside all polygons
\* returns a path that ends at dest clamped to the boundary, not at dest.
C1_DestClamped ==
    (pc = "returned" /\ InWalkable(start) /\ Level(dest) = 0)
        => /\ path # << >>
           /\ path[Len(path)] = resolveDest(polygonSet, dest)
           /\ path[Len(path)] # dest

C3_StartOutsideNoPath ==
    (pc = "returned" /\ ~InWalkable(start)) => path = << >>

\* C4: every waypoint of a returned path between its first and its last is
\* strictly inside the walkable region and is no vertex of a polygon.
C4_WaypointsOffBoundary ==
    pc = "returned" =>
        \A i \in 2..(Len(path) - 1) :
            StrictlyInside(path[i]) /\ p2v(path[i]) \notin Vertices

\* C5: no step changes the cached base graph (its nodes and adjacency lists)
\* or the elements of concaveVertices.
C5_BaseUnchanged ==
    [][/\ cachedGraph' = cachedGraph
       /\ graphs'[cachedGraph'] = graphs[cachedGraph]
       /\ Elems(concaveVertices_') = Elems(concaveVertices_)]_vars

\* A call has returned a path and left its start in the backing array of
\* concaveVertices, behind the slice's length.
C5_Witness ==
    /\ pc = "returned"
    /\ Len(path) > 2
    /\ HasSpare
    /\ SpareSlot = start
    /\ start # Pt(0, 0)

\* The reflex vertices of the Pathfinder.
ReflexVertices == {concaveVertices_.arr[k] : k \in 1..concaveVertices_.len}

\* C6: after a call has returned, a path or none, the graph VisibilityGraph()
\* returns holds no node of an earlier call: its nodes are reflex vertices,
\* the call's start or the destination the call searched for.
C6_GraphOfLastCall ==
    pc = "returned" =>
        (DOMAIN VisibilityGraph \cup NodesOf(VisibilityGraph))
            \subseteq (ReflexVertices \cup {start, resolved})

\* The path Path(s, d) returns on a newly constructed Pathfinder for the
\* same polygons, with no other call running.
PathAlone(s, d) ==
    LET n == NewPathfinder(polygons, 0)
    IN  Path(n.p, n.heap, QueryRef(1), s, d).path

\* C7: with calls running concurrently, a call that has returned has returned
\* what it returns when run alone, the graph and the points it worked on hold
\* only reflex vertices, its own start and its own destination, and nothing
\* was written to the backing array of concaveVertices or to the cached graph.
C7_ConcurrentCallsIndependent ==
    /\ \A c \in 1..NumCalls :
           calls[c].pc = "returned" =>
               /\ calls[c].path = PathAlone(calls[c].start, calls[c].dest)
               /\ (DOMAIN graphs[calls[c].vis] \cup NodesOf(graphs[calls[c].vis])
                     \cup {calls[c].points[k] : k \in 1..Len(calls[c].points)})
                      \subseteq (ReflexVertices \cup {calls[c].start, calls[c].resolved})
    /\ \A k \in (concaveVertices_.len + 1)..Len(concaveVertices_.arr) :
           concaveVertices_.arr[k] = Pt(0, 0)
    /\ graphs[cachedGraph] = visibilityGraph(polygonSet, Elems(concaveVertices_))

\* The path of Path(start, dest) on a newly constructed Pathfinder for the
\* same polygons.
FirstPath ==
    LET n == NewPathfinder(polygons, 0)
    IN  Path(n.p, n.heap, QueryRef(1), start, dest).path

\* C8: the path a call returns is the path its start and dest give on a newly
\* constructed Pathfinder, whatever calls were made before it.
C8_SameResultAfterAnyCalls ==
    pc = "called" => Path(self, graphs, QueryRef(1), start, dest).path = FirstPath

\* A call that finds a path is made after a call with another start, which
\* that earlier call left behind the length of concaveVertices.
C8_Witness ==
    /\ pc = "called"
    /\ HasSpare
    /\ SpareSlot # Pt(0, 0)
    /\ SpareSlot # start
    /\ Len(FirstPath) > 2

\* C9: for start and dest both in the walkable region, a path is returned
\* exactly if one is returned for the call with start and dest exchanged.
C9_ReachabilitySymmetric ==
    (pc = "returned" /\ InWalkable(start) /\ InWalkable(dest))
        => (path # << >> <=> Path(self, graphs, QueryRef(1), dest, start).path # << >>)

\* A path between two points of the walkable region that leads around the
\* hole over two of its vertices has been returned.
C9_Witness ==
    /\ pc = "returned"
    /\ InWalkable(start)
    /\ InWalkable(dest)
    /\ Len(path) = 4
    /\ Len(Path(self, graphs, QueryRef(1), dest, start).path) = 4

\* C10: the graph prepareVisibilityGraph returns has the nodes and the edges of
\* visibilityGraph over the reflex vertices, start and dest: an edge from a to
\* b exactly if a and b are distinct such points in line of sight.
C10_IncrementalIsFullBuild ==
    (pc = "returned" /\ vis # NilRef) =>
        LET points == Elems(concaveVertices_) \o << start, resolved >>
            full == visibilityGraph(polygonSet, points)
            pts == {points[k] : k \in 1..Len(points)}
        IN  /\ NodesOf(graphs[vis]) = NodesOf(full)
            /\ EdgesOf(graphs[vis]) = EdgesOf(full)
            /\ EdgesOf(graphs[vis]) =
                   {e \in pts \X pts :
                       e[1] # e[2] /\ inLineOfSight(polygonSet, p2v(e[1]), p2v(e[2]))}

(***************************************************************************)
(* The claims about the reflex vertices NewPathfinder extracts.            *)
(***************************************************************************)

\* The number of polygons other than polygon i that contain the first vertex
\* of polygon i; inclusive tells whether a polygon contains its own boundary.
Containers(i, inclusive) ==
    Cardinality({j \in (1..Len(polygons)) \ {i} :
                    PolygonContains(polygonSet[j], p2v(polygons[i][1]), inclusive)})

\* The n-th smallest element of a set of numbers.
Nth(S, n) == CHOOSE x \in S : Cardinality({y \in S : y < x}) = n - 1

\* The vertices of polygon i that are concave, or those that are not, in
\* vertex order.
VerticesWhere(i, wantConcave) ==
    LET idx == {k \in 1..Len(polygons[i]) : IsConcaveAt(polygonSet[i], k) = wantConcave}
    IN  [n \in 1..Cardinality(idx) |-> polygons[i][Nth(idx, n)]]

\* The reflex vertices in polygon order: the concave vertices of a polygon
\* with an even number of containers, the convex ones of one with an odd number.
RECURSIVE ReflexFrom(_, _)
ReflexFrom(i, inclusive) ==
    IF i > Len(polygons) THEN << >>
    ELSE VerticesWhere(i, Containers(i, inclusive) % 2 = 0) \o ReflexFrom(i + 1, inclusive)

\* The first vertex of some polygon lies on the boundary of another polygon.
FirstVertexOnBoundary ==
    \E i \in 1..Len(polygons) : \E j \in (1..Len(polygons)) \ {i} :
        OnBoundary(polygonSet[j], p2v(polygons[i][1]))

SimpleGraph(g) ==
    \A a \in DOMAIN g :
        /\ \A k \in 1..Len(g[a]) : g[a][k] # a
        /\ \A k, m \in 1..Len(g[a]) : g[a][k] = g[a][m] => k = m

\* C12: after a call that prepared a graph, for every start and dest (equal to
\* each other, equal to a reflex vertex, in line of sight of each other), the
\* graph the call searched (the incremental extension), the cached graph and
\* the full build over the reflex vertices, start and dest have adjacency
\* lists that hold each neighbour once at most and never the node itself.
C12_AdjacencySimple ==
    (pc = "returned" /\ vis # NilRef) =>
        /\ SimpleGraph(graphs[vis])
        /\ SimpleGraph(graphs[cachedGraph])
        /\ SimpleGraph(visibilityGraph(polygonSet, Elems(concaveVertices_) \o << start, resolved >>))

(***************************************************************************)
(* The claims about the quadTree.                                          *)
(***************************************************************************)

\* How many times p is an element of the sequence s.
Count(s, p) == Cardinality({k \in 1..Len(s) : s[k] = p})

\* How many insert calls of p returned true.
Inserted(p) == Cardinality({k \in 1..Len(inserts) : inserts[k].p = p /\ inserts[k].ok})

\* Every insert call has returned.
InsertsTerminate == pcIndex # "overflow"

\* The insert calls that have returned: all, or all but the last one.
ReturnedInserts == 1..(IF pcIndex = "overflow" THEN Len(inserts) - 1 ELSE Len(inserts))

\* The insert calls that returned false are those of points outside the boundary.
FalseIfOutside ==
    \A k \in ReturnedInserts : inserts[k].ok <=> contains(rootBoundary, inserts[k].p)

\* The last rangeSearch returned the inserted points that lie in the rect
\* searched, each as many times as it was inserted.
SearchExact ==
    pcIndex = "searched" =>
        /\ \A p \in IndexPoints :
               Count(result, p) = IF contains(searched, p) THEN Inserted(p) ELSE 0
        /\ \A k \in 1..Len(result) : result[k] \in IndexPoints

\* C13: after any sequence of insert calls (capacity 1 or more, points
\* repeated or on the lines the tree is divided at) every insert call has
\* returned, with false exactly for the points outside the root boundary, and
\* rangeSearch(r) returns exactly the points inserted with true that lie in r,
\* each as many times as it was inserted.
C13_IndexExact == InsertsTerminate /\ FalseIfOutside /\ SearchExact

=============================================================================
